---------------------------- MODULE Spec2Model ----------------------------
(***************************************************************************)
(* Ledger and billing engine of the association-management backend          *)
(* (apps/ledger): credit accounts, dues statements, income/expense          *)
(* transactions and the approval workflow.                                  *)
(*                                                                          *)
(* Money is counted in centavos (the 0.01 quantum of every DecimalField),   *)
(* percentages in whole percent.  One organisation is modelled; dates are   *)
(* kept as day offsets from "today" (timezone.now().date()).                *)
(*                                                                          *)
(* Every service function is an operator from a database value (DB) to a    *)
(* result record holding the database it leaves behind and what it returns  *)
(* or raises, so that calls nest exactly as in the source and an atomic     *)
(* block can restore the database it started from.                          *)
(***************************************************************************)
EXTENDS Integers, Sequences, FiniteSets, TLC

\* ------------------------------------------------------------------ bounds
NumUnits == 1
NumPeriods == 2
MaxAmount == 5
MaxTxns == 1
MaxEntries == 3
MaxNotes == 1
MaxPrincipal == 12
MaxMonths == 3

\* Amounts a request body may carry: IncomeIn.amount and ExpenseIn.amount are
\* plain Decimal fields, without a lower limit.
PayloadAmounts == {-1, 0, 1}
\* Period counts a preview request may carry (PreviewBreakdownIn.months).
PeriodCounts == {1, 12}
Units == 1..NumUnits
Periods == 1..NumPeriods
Amounts == 1..MaxAmount
Procs == {1, 2}
\* Principals in centavos: the small ones, and 1000.00.
Principals == 0..MaxPrincipal \cup {100000}
\* rate_value: percent per month, or centavos per month for a flat fee
RateValues == {1, 2, 50}
Months == -1..MaxMonths

\* ------------------------------------------------------------------- enums
TransactionStatus == {"DRAFT", "PENDING", "POSTED", "CANCELLED"}
DuesStatementStatus == {"UNPAID", "PARTIAL", "PAID", "OVERDUE", "WAIVED"}
PaymentType == {"EXACT", "ADVANCE"}

\* Enum.<name>: attribute access on a TextChoices class raises AttributeError
\* for a name that is not one of its members.
\* Attribute access that answers for every name.
HasMember_any(enum, name) == TRUE
HasMember(enum, name) == name \in enum

\* unit_id = None / category_id = None / transaction_id = None
None == 0
\* valid_from / valid_until IS NULL
NullDate == -9999

\* Decimal.quantize(Decimal('0.01')) of n/d centavos (ROUND_HALF_EVEN, the
\* decimal module's default context rounding).
Quantize(n, d) ==
    LET q == n \div d
        r == n % d
    IN  IF 2 * r < d THEN q
        ELSE IF 2 * r > d THEN q + 1
        ELSE IF q % 2 = 0 THEN q ELSE q + 1

Max(a, b) == IF a >= b THEN a ELSE b
\* min that always answers its first argument.
MinFirst(a, b) == a

Min(a, b) == IF a <= b THEN a ELSE b

RECURSIVE SumSeq(_)
SumSeq(s) == IF s = <<>> THEN 0 ELSE Head(s) + SumSeq(Tail(s))

RECURSIVE SelectAmounts(_, _)
\* sum(adj.amount for adj in adjustments if adj.adjustment_type == kind)
SelectAmounts(adjs, kind) ==
    IF adjs = <<>> THEN 0
    ELSE (IF Head(adjs).adjustment_type = kind THEN Head(adjs).amount ELSE 0)
         + SelectAmounts(Tail(adjs), kind)

\* ------------------------------------------------------------------- state
VARIABLES
    statements,             \* DuesStatement rows, by (unit, period)
    unit_credit,            \* UnitCredit row of each unit
    credit_transactions,    \* CreditTransaction rows of each unit, oldest first
    transactions,           \* Transaction rows, in creation order
    transaction_adjustments,\* TransactionAdjustment rows, in creation order
    penalty_policies,       \* PenaltyPolicy rows of the organisation
    discount_configs,       \* DiscountConfig rows of the organisation, by name
    billing_config,         \* BillingConfig row of the organisation
    ret,                    \* what the last service call returned or raised
    pc, local               \* concurrent callers: position and local copies

vars == <<statements, unit_credit, credit_transactions, transactions,
          transaction_adjustments, penalty_policies, discount_configs,
          billing_config, ret, pc, local>>

config == <<penalty_policies, discount_configs, billing_config>>
procs == <<pc, local>>

\* The rows the engine writes, as one value.
DB == [statements |-> statements,
       unit_credit |-> unit_credit,
       credit_transactions |-> credit_transactions,
       transactions |-> transactions,
       transaction_adjustments |-> transaction_adjustments]

Commit(db) ==
    /\ statements' = db.statements
    /\ unit_credit' = db.unit_credit
    /\ credit_transactions' = db.credit_transactions
    /\ transactions' = db.transactions
    /\ transaction_adjustments' = db.transaction_adjustments

\* ------------------------------------------------------------------- rows
NoStmt == [exists |-> FALSE, base_amount |-> 0, penalty_amount |-> 0,
           discount_amount |-> 0, net_amount |-> 0, amount_paid |-> 0,
           status |-> "NONE", days_past_due |-> 0]

\* A DuesStatement row; days_past_due is (today - due_date).days.
Stmt(base, pen, disc, paid, st, days) ==
    [exists |-> TRUE, base_amount |-> base, penalty_amount |-> pen,
     discount_amount |-> disc, net_amount |-> base + pen - disc,
     amount_paid |-> paid, status |-> st, days_past_due |-> days]

\* DuesStatement.balance_due
balance_due(s) == s.net_amount - s.amount_paid

NoAccount == [exists |-> FALSE, credit_balance |-> 0]


\* credit_to_add = None
NoneAmt == -999999

\* ------------------------------------------------------------- credit
\* UnitCredit.objects.get_or_create(unit_id=..., defaults={credit_balance: 0})
get_or_create_unit_credit(db, u) ==
    IF db.unit_credit[u].exists THEN db
    ELSE [db EXCEPT !.unit_credit[u] = [exists |-> TRUE, credit_balance |-> 0]]

\* get_credit_balance: 0.00 when the unit has no UnitCredit row
get_credit_balance(db, u) ==
    IF db.unit_credit[u].exists THEN db.unit_credit[u].credit_balance ELSE 0

CreditRow(type, amount, balance_after, tid) ==
    [transaction_type |-> type, amount |-> amount,
     balance_after |-> balance_after, transaction_id |-> tid]

\* add_credit keeping one ledger row per account: the new entry replaces the
\* latest one.
add_credit_overwriting(db, u, amount, tid) ==
    LET d1 == get_or_create_unit_credit(db, u)
        bal == d1.unit_credit[u].credit_balance + amount
        d2 == [d1 EXCEPT !.unit_credit[u].credit_balance = bal]
        d3 == [d2 EXCEPT !.credit_transactions[u] =
                   IF @ = <<>> THEN << CreditRow("DEPOSIT", amount, bal, tid) >>
                   ELSE [@ EXCEPT ![Len(@)] = CreditRow("DEPOSIT", amount, bal, tid)]]
    IN  [db |-> d3, out |-> "ok"]

add_credit(db, u, amount, tid) ==
    LET d1 == get_or_create_unit_credit(db, u)
        bal == d1.unit_credit[u].credit_balance + amount
        d2 == [d1 EXCEPT !.unit_credit[u].credit_balance = bal]
        d3 == [d2 EXCEPT !.credit_transactions[u] =
                   Append(@, CreditRow("DEPOSIT", amount, bal, tid))]
    IN  [db |-> d3, out |-> "ok"]

\* deduct_credit without its "insufficient credit" return.
deduct_credit_unchecked(db, u, amount) ==
    LET d1 == get_or_create_unit_credit(db, u)
        bal == d1.unit_credit[u].credit_balance - amount
        d2 == [d1 EXCEPT !.unit_credit[u].credit_balance = bal]
        d3 == [d2 EXCEPT !.credit_transactions[u] =
                   Append(@, CreditRow("DUES_DEDUCTION", -amount, bal, None))]
    IN  [db |-> d3, out |-> "ok"]

\* deduct_credit refusing a deduction of the whole balance (<= for <).
deduct_credit_strict(db, u, amount) ==
    LET d1 == get_or_create_unit_credit(db, u)
        bal == d1.unit_credit[u].credit_balance - amount
        d2 == [d1 EXCEPT !.unit_credit[u].credit_balance = bal]
        d3 == [d2 EXCEPT !.credit_transactions[u] =
                   Append(@, CreditRow("DUES_DEDUCTION", -amount, bal, None))]
    IN  IF d1.unit_credit[u].credit_balance <= amount
        THEN [db |-> d1, out |-> "None"]
        ELSE [db |-> d3, out |-> "ok"]

deduct_credit(db, u, amount) ==
    LET d1 == get_or_create_unit_credit(db, u)
        bal == d1.unit_credit[u].credit_balance - amount
        d2 == [d1 EXCEPT !.unit_credit[u].credit_balance = bal]
        d3 == [d2 EXCEPT !.credit_transactions[u] =
                   Append(@, CreditRow("DUES_DEDUCTION", -amount, bal, None))]
    IN  IF d1.unit_credit[u].credit_balance < amount
        THEN [db |-> d1, out |-> "None"]
        ELSE [db |-> d3, out |-> "ok"]

\* ------------------------------------------------------------- dues
Outstanding == {"UNPAID", "OVERDUE", "PARTIAL"}

\* get_current_dues_for_unit: the oldest statement still UNPAID, OVERDUE or
\* PARTIAL, as its period; None when there is none.
get_current_dues_for_unit(db, u) ==
    LET open == {k \in Periods : /\ db.statements[u, k].exists
                                 /\ db.statements[u, k].status \in Outstanding}
    IN  IF open = {} THEN None
        ELSE CHOOSE k \in open : \A j \in open : k <= j

\* ------------------------------------------------------------- validation
Validation(valid, error, credit) ==
    [valid |-> valid, error |-> error, credit_to_add |-> credit]

\* validate_payment_amount without its "partial payments are not allowed" rule.
validate_payment_amount_lenient(db, u, amount, payment_type) ==
    LET Against(k) ==
            LET total_due == db.statements[u, k].net_amount
                             - db.statements[u, k].amount_paid
                excess == amount - total_due
            IN  IF k = None
                THEN IF payment_type = "EXACT"
                     THEN Validation(FALSE, "no outstanding dues", NoneAmt)
                     ELSE Validation(TRUE, "", amount)
                ELSE IF payment_type = "EXACT"
                THEN IF amount # total_due
                     THEN Validation(FALSE, "exact payment mismatch", NoneAmt)
                     ELSE Validation(TRUE, "", NoneAmt)
                ELSE IF payment_type = "ADVANCE"
                THEN Validation(TRUE, "", IF excess > 0 THEN excess ELSE NoneAmt)
                ELSE Validation(TRUE, "", NoneAmt)
    IN  Against(get_current_dues_for_unit(db, u))

\* validate_payment_amount without its "exact payment must be ..." rule.
validate_payment_amount_inexact(db, u, amount, payment_type) ==
    LET Against(k) ==
            LET total_due == db.statements[u, k].net_amount
                             - db.statements[u, k].amount_paid
                excess == amount - total_due
            IN  IF k = None
                THEN IF payment_type = "EXACT"
                     THEN Validation(FALSE, "no outstanding dues", NoneAmt)
                     ELSE Validation(TRUE, "", amount)
                ELSE IF amount < total_due
                THEN Validation(FALSE, "partial payments are not allowed", NoneAmt)
                ELSE IF payment_type = "EXACT"
                THEN Validation(TRUE, "", NoneAmt)
                ELSE IF payment_type = "ADVANCE"
                THEN Validation(TRUE, "", IF excess > 0 THEN excess ELSE NoneAmt)
                ELSE Validation(TRUE, "", NoneAmt)
    IN  Against(get_current_dues_for_unit(db, u))

\* validate_payment_amount taking any payment of a unit without outstanding
\* dues as a credit deposit, whatever its mode.
validate_payment_amount_without_dues(db, u, amount, payment_type) ==
    LET Against(k) ==
            LET total_due == db.statements[u, k].net_amount
                             - db.statements[u, k].amount_paid
                excess == amount - total_due
            IN  IF k = None
                THEN Validation(TRUE, "", amount)
                ELSE IF amount < total_due
                THEN Validation(FALSE, "partial payments are not allowed", NoneAmt)
                ELSE IF payment_type = "EXACT"
                THEN IF amount # total_due
                     THEN Validation(FALSE, "exact payment mismatch", NoneAmt)
                     ELSE Validation(TRUE, "", NoneAmt)
                ELSE IF payment_type = "ADVANCE"
                THEN Validation(TRUE, "", IF excess > 0 THEN excess ELSE NoneAmt)
                ELSE Validation(TRUE, "", NoneAmt)
    IN  Against(get_current_dues_for_unit(db, u))

validate_payment_amount(db, u, amount, payment_type) ==
    LET Against(k) ==
            LET total_due == db.statements[u, k].net_amount
                             - db.statements[u, k].amount_paid
                excess == amount - total_due
            IN  IF k = None
                THEN IF payment_type = "EXACT"
                     THEN Validation(FALSE, "no outstanding dues", NoneAmt)
                     ELSE Validation(TRUE, "", amount)
                ELSE IF amount < total_due
                THEN Validation(FALSE, "partial payments are not allowed", NoneAmt)
                ELSE IF payment_type = "EXACT"
                THEN IF amount # total_due
                     THEN Validation(FALSE, "exact payment mismatch", NoneAmt)
                     ELSE Validation(TRUE, "", NoneAmt)
                ELSE IF payment_type = "ADVANCE"
                THEN Validation(TRUE, "", IF excess > 0 THEN excess ELSE NoneAmt)
                ELSE Validation(TRUE, "", NoneAmt)
    IN  Against(get_current_dues_for_unit(db, u))

\* ------------------------------------------------------------- penalties
RECURSIVE calculate_compound_interest_penalty(_, _, _)
\* Interest charged each month on the principal plus the interest so far.
calculate_compound_interest_penalty(principal, rate_percent, months_overdue) ==
    IF months_overdue <= 0 THEN 0
    ELSE LET accrued == calculate_compound_interest_penalty(principal, rate_percent,
                                                           months_overdue - 1)
         IN  accrued + Quantize((principal + accrued) * rate_percent, 100)

calculate_simple_interest_penalty(principal, rate_percent, months_overdue) ==
    IF months_overdue <= 0 THEN 0
    ELSE Quantize(principal * rate_percent * months_overdue, 100)

ActivePolicies == SelectSeq(penalty_policies, LAMBDA p : p.is_active)

\* One statement's entry in calculate_pending_penalties, <<>> when it has none.
PendingPenaltyOf(s, policy) ==
    LET days_after_grace == s.days_past_due - policy.grace_period_days
        months_overdue == Max(1, days_after_grace \div 30)
        principal == s.net_amount - s.amount_paid
        penalty_amount ==
            IF policy.rate_type = "PERCENT"
            THEN calculate_simple_interest_penalty(principal, policy.rate_value,
                                                   months_overdue)
            ELSE policy.rate_value * months_overdue
    IN  IF /\ s.exists
           /\ s.status \in {"UNPAID", "OVERDUE"}
           /\ s.days_past_due > 0
           /\ days_after_grace > 0
        THEN << [principal |-> principal, rate |-> policy.rate_value,
                 months_overdue |-> months_overdue,
                 calculated_amount |-> penalty_amount] >>
        ELSE <<>>

RECURSIVE PendingFrom(_, _, _, _)
\* The loop over the unit's statements, in the model's default ordering
\* (newest period first).
PendingFrom(db, u, policy, k) ==
    IF k = 0 THEN <<>>
    ELSE PendingPenaltyOf(db.statements[u, k], policy) \o PendingFrom(db, u, policy, k - 1)

\* PenaltyPolicy.objects.get(is_active=True): DoesNotExist is caught and gives
\* no penalties; MultipleObjectsReturned is not caught.
calculate_pending_penalties(db, u) ==
    IF Len(ActivePolicies) = 0 THEN [exc |-> "", penalties |-> <<>>]
    ELSE IF Len(ActivePolicies) > 1
    THEN [exc |-> "MultipleObjectsReturned", penalties |-> <<>>]
    ELSE [exc |-> "",
          penalties |-> PendingFrom(db, u, ActivePolicies[1], NumPeriods)]

\* ------------------------------------------------------------- discounts
DiscountApplies(d, category_id, months) ==
    /\ d.is_active
    /\ d.min_months <= months
    /\ (d.valid_from = NullDate \/ d.valid_from <= 0)
    /\ (d.valid_until = NullDate \/ d.valid_until >= 0)
    /\ ~ (/\ d.applicable_categories # {}
          /\ category_id # None
          /\ category_id \notin d.applicable_categories)

DiscountAmount(d, amount) ==
    IF d.discount_type = "PERCENTAGE" THEN Quantize(amount * d.value, 100)
    ELSE d.value

RECURSIVE DiscountsFrom(_, _, _, _)
DiscountsFrom(ds, category_id, amount, months) ==
    IF ds = <<>> THEN <<>>
    ELSE (IF DiscountApplies(Head(ds), category_id, months)
          THEN << [id |-> Head(ds).id,
                   calculated_amount |-> DiscountAmount(Head(ds), amount)] >>
          ELSE <<>>)
         \o DiscountsFrom(Tail(ds), category_id, amount, months)

calculate_applicable_discounts(category_id, amount, months) ==
    DiscountsFrom(discount_configs, category_id, amount, months)

\* ------------------------------------------------------------- breakdown
Adjustment(kind, amount, months) ==
    [adjustment_type |-> kind, amount |-> amount, months_overdue |-> months]

RECURSIVE PenaltyAdjustments(_)
PenaltyAdjustments(ps) ==
    IF ps = <<>> THEN <<>>
    ELSE << Adjustment("PENALTY", Head(ps).calculated_amount, Head(ps).months_overdue) >>
         \o PenaltyAdjustments(Tail(ps))

RECURSIVE DiscountAdjustments(_, _)
DiscountAdjustments(ds, ids) ==
    IF ds = <<>> THEN <<>>
    ELSE (IF Head(ds).id \in ids
          THEN << Adjustment("DISCOUNT", Head(ds).calculated_amount, 0) >>
          ELSE <<>>)
         \o DiscountAdjustments(Tail(ds), ids)

preview_transaction_breakdown(db, u, amount, payment_type, category_id, ids, months) ==
    LET Breakdown(pending, applicable, k) ==
            LET adjustments == PenaltyAdjustments(pending.penalties)
                               \o DiscountAdjustments(applicable, ids)
                total_penalties == SelectAmounts(adjustments, "PENALTY")
                total_discounts == SelectAmounts(adjustments, "DISCOUNT")
                net_amount == amount + total_penalties - total_discounts
                total_due == db.statements[u, k].net_amount
                             - db.statements[u, k].amount_paid + total_penalties
                credit_to_add ==
                    IF payment_type = "ADVANCE" /\ u # None /\ k # None
                    THEN IF net_amount > total_due THEN net_amount - total_due
                         ELSE NoneAmt
                    ELSE NoneAmt
            IN  IF pending.exc # ""
                THEN [exc |-> pending.exc, gross_amount |-> amount,
                      adjustments |-> <<>>, net_amount |-> amount,
                      credit_to_add |-> NoneAmt]
                ELSE [exc |-> "", gross_amount |-> amount,
                      adjustments |-> adjustments, net_amount |-> net_amount,
                      credit_to_add |-> credit_to_add]
    IN  Breakdown(IF u # None THEN calculate_pending_penalties(db, u)
                  ELSE [exc |-> "", penalties |-> <<>>],
                  calculate_applicable_discounts(category_id, amount, months),
                  IF u # None THEN get_current_dues_for_unit(db, u) ELSE None)

\* ------------------------------------------------------------- recording
Txn(u, type, payment_type, gross, net) ==
    [unit_id |-> u, transaction_type |-> type, status |-> "DRAFT",
     payment_type |-> payment_type, gross_amount |-> gross, net_amount |-> net,
     description |-> <<>>]

RECURSIVE AdjustmentRows(_, _)
AdjustmentRows(adjs, tid) ==
    IF adjs = <<>> THEN <<>>
    ELSE << [transaction_id |-> tid, adjustment_type |-> Head(adjs).adjustment_type,
             amount |-> Head(adjs).amount,
             penalty_months |-> Head(adjs).months_overdue] >>
         \o AdjustmentRows(Tail(adjs), tid)

record_income(db, amount, payment_type, u, category_id, ids) ==
    LET Record(validation, breakdown) ==
            LET tid == Len(db.transactions) + 1
                d1 == [db EXCEPT !.transactions =
                           Append(@, Txn(u, "INCOME", payment_type,
                                         breakdown.gross_amount,
                                         breakdown.net_amount))]
                d2 == [d1 EXCEPT !.transaction_adjustments =
                           @ \o AdjustmentRows(breakdown.adjustments, tid)]
            IN  IF ~validation.valid
                THEN [db |-> db, out |-> "ValueError", error |-> validation.error,
                      credit_to_add |-> NoneAmt]
                ELSE IF breakdown.exc # ""
                THEN [db |-> db, out |-> breakdown.exc, error |-> "",
                      credit_to_add |-> NoneAmt]
                ELSE [db |-> d2, out |-> "ok", error |-> "",
                      credit_to_add |-> breakdown.credit_to_add]
    IN  Record(IF u # None THEN validate_payment_amount(db, u, amount, payment_type)
               ELSE Validation(TRUE, "", NoneAmt),
               preview_transaction_breakdown(db, u, amount, payment_type,
                                             category_id, ids, 1))

\* Every unit id the callers pass names an active unit of the organisation
\* (get_unit_dto is an external collaborator).
record_expense(db, u, amount) ==
    [db |-> [db EXCEPT !.transactions =
                 Append(@, Txn(u, "EXPENSE", "EXACT", amount, amount))],
     out |-> "ok"]


\* ------------------------------------------------------------- billing
\* today's (year, month): the period generate_monthly_statements bills
CurrentPeriod == NumPeriods

\* PenaltyPolicy.calculate_penalty, in hundredths of a centavo (the product is
\* not quantized).
calculate_penalty(policy, principal, months_overdue) ==
    IF policy.rate_type = "FLAT" THEN 100 * policy.rate_value * months_overdue
    ELSE principal * policy.rate_value * months_overdue

RECURSIVE CarriedFrom(_, _, _, _)
CarriedFrom(db, u, policy, k) ==
    LET s == db.statements[u, k]
        months_overdue == Max(1, s.days_past_due \div 30)
    IN  IF k = 0 THEN 0
        ELSE (IF /\ s.exists
                 /\ s.status \in {"PENDING", "PARTIAL"}
                 /\ s.days_past_due > 0
                 /\ s.days_past_due > policy.grace_period_days
              THEN calculate_penalty(policy, s.net_amount - s.amount_paid,
                                     months_overdue)
              ELSE 0)
             + CarriedFrom(db, u, policy, k - 1)

\* The queryset filter names DuesStatementStatus.PENDING, which is not a
\* member of the enum: building it raises AttributeError before any row is
\* read.  The result is then never computed; it is kept as the source has it,
\* the unrounded sum in hundredths of a centavo.
calculate_carried_penalties(db, u) ==
    IF ~HasMember(DuesStatementStatus, "PENDING")
    THEN [exc |-> "AttributeError", total |-> 0]
    ELSE IF Len(ActivePolicies) = 0 THEN [exc |-> "", total |-> 0]
    ELSE [exc |-> "", total |-> CarriedFrom(db, u, ActivePolicies[1], NumPeriods)]

\* apply_credit_to_statement paying in the whole credit balance, whatever the
\* statement still owes.
apply_credit_to_statement_overpaying(db, u, k) ==
    LET statement == db.statements[u, k]
        credit_balance == get_credit_balance(db, u)
        paid == statement.amount_paid + credit_balance
        Saved(d) == [d EXCEPT
                       !.statements[u, k].amount_paid = paid,
                       !.statements[u, k].status =
                           IF paid >= statement.net_amount THEN "PAID" ELSE "PARTIAL"]
        Atomic(deducted) ==
            IF deducted.out = "None"
            THEN [db |-> deducted.db, out |-> "none", amount |-> 0]
            ELSE [db |-> Saved(deducted.db), out |-> "ok", amount |-> credit_balance]
    IN  IF credit_balance <= 0 THEN [db |-> db, out |-> "none", amount |-> 0]
        ELSE Atomic(deduct_credit(db, u, credit_balance))
apply_credit_to_statement(db, u, k) ==
    LET statement == db.statements[u, k]
        credit_balance == get_credit_balance(db, u)
        amount_to_pay == Min(credit_balance, statement.net_amount - statement.amount_paid)
        paid == statement.amount_paid + amount_to_pay
        \* statement.save() after the deduction
        Saved(d) == [d EXCEPT
                       !.statements[u, k].amount_paid = paid,
                       !.statements[u, k].status =
                           IF paid >= statement.net_amount THEN "PAID" ELSE "PARTIAL"]
        \* an exception leaves the atomic block: everything in it is rolled back
        Recorded(income) ==
            IF income.out # "ok" THEN [db |-> db, out |-> income.out, amount |-> 0]
            ELSE [db |-> income.db, out |-> "ok", amount |-> amount_to_pay]
        \* with db_transaction.atomic():
        Atomic(deducted) ==
            IF deducted.out = "None"
            THEN [db |-> deducted.db, out |-> "none", amount |-> 0]
            ELSE Recorded(record_income(Saved(deducted.db), amount_to_pay, "EXACT",
                                        u, None, {}))
    IN  IF credit_balance <= 0 THEN [db |-> db, out |-> "none", amount |-> 0]
        ELSE IF amount_to_pay <= 0 THEN [db |-> db, out |-> "none", amount |-> 0]
        ELSE Atomic(deduct_credit(db, u, amount_to_pay))

\* generate_statement_for_unit from "base_amount = ..." on: what it does once
\* no statement was found for the key.  (unit, period) is unique_together.
create_statement_for_unit(db, u, k) ==
    LET base_amount == billing_config.monthly_dues_amount
        discounts == calculate_applicable_discounts(None, base_amount, 1)
        discount_amount ==
            SumSeq([i \in 1..Len(discounts) |-> discounts[i].calculated_amount])
        \* the DecimalFields keep two decimal places of what is stored
        Created(penalty_amount) ==
            [db EXCEPT !.statements[u, k] =
                [exists |-> TRUE, base_amount |-> base_amount,
                 penalty_amount |-> Quantize(penalty_amount, 100),
                 discount_amount |-> discount_amount,
                 net_amount |-> Quantize(100 * (base_amount - discount_amount)
                                         + penalty_amount, 100),
                 amount_paid |-> 0, status |-> "PENDING",
                 days_past_due |-> billing_config.days_past_due]]
        \* apply_credit_to_statement's exception leaves the new row behind
        Settled(created, applied) ==
            IF applied.out \in {"ok", "none"} THEN [db |-> applied.db, out |-> "created"]
            ELSE [db |-> created, out |-> applied.out]
        Create(created) == Settled(created, apply_credit_to_statement(created, u, k))
        Bill(carried) ==
            IF carried.exc # "" THEN [db |-> db, out |-> carried.exc]
            ELSE IF ~HasMember(DuesStatementStatus, "PENDING")
            THEN [db |-> db, out |-> "AttributeError"]
            ELSE IF db.statements[u, k].exists
            THEN [db |-> db, out |-> "IntegrityError"]
            ELSE Create(Created(carried.total))
    IN  Bill(calculate_carried_penalties(db, u))

\* generate_statement_for_unit without the lookup of an existing statement.
generate_statement_for_unit_unchecked(db, u, k) ==
    create_statement_for_unit(db, u, k)

generate_statement_for_unit(db, u, k) ==
    IF db.statements[u, k].exists THEN [db |-> db, out |-> "existing"]
    ELSE create_statement_for_unit(db, u, k)

\* generate_monthly_statements: the loop over the active units, in order; an
\* exception raised for one unit ends it, the earlier units' rows stay.
generate_monthly_statements(db) ==
    LET Step(prev, u) ==
            IF prev.out \in {"existing", "created"}
            THEN generate_statement_for_unit(prev.db, u, CurrentPeriod)
            ELSE prev
        upto[u \in 0..NumUnits] ==
            IF u = 0 THEN [db |-> db, out |-> "existing"]
            ELSE Step(upto[u - 1], u)
        Returned(last) ==
            IF last.out \in {"existing", "created"} THEN [db |-> last.db, out |-> "ok"]
            ELSE last
    IN  IF ~(billing_config.exists /\ billing_config.is_active)
        THEN [db |-> db, out |-> "no billing config"]
        ELSE Returned(upto[NumUnits])

\* ------------------------------------------------------------- workflow
Found(db, t) == t \in 1..Len(db.transactions)

\* submit_for_approval without the test of the source status.
submit_for_approval_any_status(db, t) ==
    IF ~Found(db, t) THEN [db |-> db, out |-> "ValueError"]
    ELSE [db |-> [db EXCEPT !.transactions[t].status = "PENDING"], out |-> "ok"]
submit_for_approval(db, t) ==
    IF ~Found(db, t) THEN [db |-> db, out |-> "ValueError"]
    ELSE IF db.transactions[t].status # "DRAFT" THEN [db |-> db, out |-> "ValueError"]
    ELSE [db |-> [db EXCEPT !.transactions[t].status = "PENDING"], out |-> "ok"]

\* approve_transaction from the status write on.  The write names
\* TransactionStatus.APPROVED, which is not a member of the enum: the
\* assignment raises AttributeError before anything is saved.
approve_pending(db, t) ==
    LET txn == db.transactions[t]
        u == txn.unit_id
        \* transaction.save() with the new status
        Approved(d1) ==
            LET Credit(k) ==
                    LET total_due == d1.statements[u, k].net_amount
                                     - d1.statements[u, k].amount_paid
                        credit_added == txn.net_amount - total_due
                        Paid(d2) == [d2 EXCEPT
                                       !.statements[u, k].status = "PAID",
                                       !.statements[u, k].amount_paid =
                                           d2.statements[u, k].net_amount]
                    IN  IF k # None /\ txn.net_amount > total_due
                        THEN [db |-> Paid(add_credit(d1, u, credit_added, t).db),
                              out |-> "ok", credit_added |-> credit_added]
                        ELSE [db |-> d1, out |-> "ok", credit_added |-> NoneAmt]
            IN  IF /\ txn.transaction_type = "INCOME"
                   /\ txn.payment_type = "ADVANCE"
                   /\ u # None
                THEN Credit(get_current_dues_for_unit(d1, u))
                ELSE [db |-> d1, out |-> "ok", credit_added |-> NoneAmt]
    IN  IF ~HasMember(TransactionStatus, "APPROVED")
        THEN [db |-> db, out |-> "AttributeError", credit_added |-> NoneAmt]
        ELSE Approved([db EXCEPT !.transactions[t].status = "APPROVED"])

\* The transaction is loaded and its status tested; the rest follows.
approve_transaction(db, t) ==
    IF ~Found(db, t) THEN [db |-> db, out |-> "ValueError", credit_added |-> NoneAmt]
    ELSE IF db.transactions[t].status # "PENDING"
    THEN [db |-> db, out |-> "ValueError", credit_added |-> NoneAmt]
    ELSE approve_pending(db, t)

reject_transaction(db, t, reason) ==
    IF ~Found(db, t) THEN [db |-> db, out |-> "ValueError"]
    ELSE IF db.transactions[t].status # "PENDING" THEN [db |-> db, out |-> "ValueError"]
    ELSE [db |-> [db EXCEPT
                    !.transactions[t].status = "DRAFT",
                    !.transactions[t].description =
                        IF reason THEN Append(@, "REJECTED") ELSE @],
          out |-> "ok"]

\* cancel_transaction without the test for an already cancelled transaction.
cancel_transaction_again(db, t, reason) ==
    IF ~Found(db, t) THEN [db |-> db, out |-> "ValueError"]
    ELSE [db |-> [db EXCEPT
                    !.transactions[t].status = "CANCELLED",
                    !.transactions[t].description =
                        IF reason THEN Append(@, "CANCELLED") ELSE @],
          out |-> "ok"]
cancel_transaction(db, t, reason) ==
    IF ~Found(db, t) THEN [db |-> db, out |-> "ValueError"]
    ELSE IF db.transactions[t].status = "CANCELLED" THEN [db |-> db, out |-> "ValueError"]
    ELSE [db |-> [db EXCEPT
                    !.transactions[t].status = "CANCELLED",
                    !.transactions[t].description =
                        IF reason THEN Append(@, "CANCELLED") ELSE @],
          out |-> "ok"]


\* ------------------------------------------------------------- initial rows
\* Statements as the seed command leaves them (core/management/commands/seed.py):
\* for an earlier month a paid, an unpaid, a partially paid or an overdue one,
\* for the current month none yet or an unpaid one still within grace.
EarlierStatements ==
    { NoStmt,
      Stmt(4, 0, 1, 3, "PAID", 50),
      Stmt(4, 0, 0, 0, "UNPAID", 50),
      Stmt(4, 0, 0, 2, "PARTIAL", 50),
      Stmt(4, 1, 0, 0, "OVERDUE", 100) }

CurrentStatements ==
    { NoStmt,
      Stmt(4, 0, 0, 0, "UNPAID", 10) }

SeededStatements ==
    { f \in [Units \X Periods -> EarlierStatements \cup CurrentStatements] :
        \A u \in Units, k \in Periods :
            f[u, k] \in (IF k = NumPeriods THEN CurrentStatements ELSE EarlierStatements) }

Policy(type, value, grace) ==
    [rate_type |-> type, rate_value |-> value, grace_period_days |-> grace,
     is_active |-> TRUE]

\* No policy, one percentage policy, one flat policy, or (as seeded) both active.
SeededPolicies ==
    { <<>>,
      << Policy("PERCENT", 50, 15) >>,
      << Policy("FLAT", 1, 15) >>,
      << Policy("PERCENT", 50, 15), Policy("FLAT", 1, 30) >> }

Discount(id, type, value, min_months, until) ==
    [id |-> id, discount_type |-> type, value |-> value, min_months |-> min_months,
     is_active |-> TRUE, valid_from |-> NullDate, valid_until |-> until,
     applicable_categories |-> {}]

SeededDiscounts ==
    { <<>>,
      << Discount(1, "PERCENTAGE", 50, 1, NullDate) >>,
      << Discount(1, "PERCENTAGE", 50, 1, NullDate), Discount(2, "FLAT", 6, 1, NullDate) >>,
      << Discount(1, "PERCENTAGE", 50, 12, NullDate), Discount(2, "FLAT", 6, 1, -1) >> }

DiscountIds == {1, 2}

NoBillingConfig ==
    [exists |-> FALSE, is_active |-> FALSE, monthly_dues_amount |-> 0,
     days_past_due |-> 0]

SeededBillingConfigs ==
    { NoBillingConfig,
      [exists |-> TRUE, is_active |-> TRUE, monthly_dues_amount |-> 4,
       days_past_due |-> 0] }

Result(op, out, error, amount) ==
    [op |-> op, out |-> out, error |-> error, amount |-> amount]

\* What a caller in flight holds: the call, its arguments, the balance of the
\* UnitCredit object it loaded, and what the call returned or raised.
Idle == [op |-> "", unit |-> 1, period |-> 1, amount |-> 0, balance |-> 0,
         out |-> ""]

\* The seeded configuration and statements.
InitConfig ==
    /\ statements \in SeededStatements
    /\ penalty_policies \in SeededPolicies
    /\ discount_configs \in SeededDiscounts
    /\ billing_config \in SeededBillingConfigs

\* An organisation with nothing configured and nothing billed.
InitBare ==
    /\ statements = [x \in Units \X Periods |-> NoStmt]
    /\ penalty_policies = <<>>
    /\ discount_configs = <<>>
    /\ billing_config = NoBillingConfig

NoAccounts ==
    /\ unit_credit = [u \in Units |-> NoAccount]
    /\ credit_transactions = [u \in Units |-> <<>>]

\* Accounts as one caller's add_credit leaves them: absent, or one deposit.
FundedAccounts ==
    \E b \in 0..MaxAmount :
        /\ unit_credit = [u \in Units |->
               IF b = 0 THEN NoAccount ELSE [exists |-> TRUE, credit_balance |-> b]]
        /\ credit_transactions = [u \in Units |->
               IF b = 0 THEN <<>> ELSE << CreditRow("DEPOSIT", b, b, None) >>]

NoCalls ==
    /\ transactions = <<>>
    /\ transaction_adjustments = <<>>
    /\ ret = Result("", "", "", 0)
    /\ pc = [p \in Procs |-> "idle"]
    /\ local = [p \in Procs |-> Idle]

\* Transactions as the seed command leaves them (seed.py:337-407): one row
\* created directly with its status, POSTED or PENDING, payment type EXACT,
\* gross = net, an income for a unit or an expense for none.
SeededTransactions ==
    { << [Txn(u, "INCOME", "EXACT", 4, 4) EXCEPT !.status = st] >> :
          u \in Units, st \in {"POSTED", "PENDING"} }
    \cup { << [Txn(None, "EXPENSE", "EXACT", 4, 4) EXCEPT !.status = "POSTED"] >> }

SeededCalls ==
    /\ transactions \in SeededTransactions
    /\ transaction_adjustments = <<>>
    /\ ret = Result("", "", "", 0)
    /\ pc = [p \in Procs |-> "idle"]
    /\ local = [p \in Procs |-> Idle]
Init == InitConfig /\ NoAccounts /\ NoCalls

\* ------------------------------------------------------------- service calls
\* Credit ledger entries written so far, over all units.
LedgerEntries == SumSeq([u \in Units |-> Len(credit_transactions[u])])

Call(r, op, error, amount) ==
    /\ Commit(r.db)
    /\ ret' = Result(op, r.out, error, amount)
    /\ UNCHANGED <<config, procs>>

AddCredit(u, amount) ==
    /\ LedgerEntries < MaxEntries
    /\ Call(add_credit(DB, u, amount, None), "add_credit", "", amount)

DeductCredit(u, amount) ==
    /\ LedgerEntries < MaxEntries
    /\ Call(deduct_credit(DB, u, amount), "deduct_credit", "", amount)

RecordIncome(u, amount, payment_type, ids) ==
    /\ Len(transactions) < MaxTxns
    /\ LET r == record_income(DB, amount, payment_type, u, None, ids)
       IN  Call(r, "record_income", r.error, r.credit_to_add)

RecordExpense(amount) ==
    /\ Len(transactions) < MaxTxns
    /\ Call(record_expense(DB, None, amount), "record_expense", "", amount)

SubmitForApproval(t) ==
    Call(submit_for_approval(DB, t), "submit_for_approval", "", t)

ApproveTransaction(t) ==
    LET r == approve_transaction(DB, t)
    IN  Call(r, "approve_transaction", "", r.credit_added)

\* A reason is appended to the description; the model stops annotating a
\* transaction that already carries MaxNotes annotations.
CanAnnotate(t, reason) ==
    reason => (t \in 1..Len(transactions) => Len(transactions[t].description) < MaxNotes)

RejectTransaction(t, reason) ==
    /\ CanAnnotate(t, reason)
    /\ Call(reject_transaction(DB, t, reason), "reject_transaction", "", t)

CancelTransaction(t, reason) ==
    /\ CanAnnotate(t, reason)
    /\ Call(cancel_transaction(DB, t, reason), "cancel_transaction", "", t)

ApplyCreditToStatement(u, k) ==
    /\ statements[u, k].exists
    /\ Len(transactions) < MaxTxns
    /\ LedgerEntries < MaxEntries
    /\ LET r == apply_credit_to_statement(DB, u, k)
       IN  Call(r, "apply_credit_to_statement", "", r.amount)

GenerateStatementForUnit(u, k) ==
    /\ billing_config.exists
    /\ Call(generate_statement_for_unit(DB, u, k), "generate_statement_for_unit", "", k)

GenerateMonthlyStatements ==
    Call(generate_monthly_statements(DB), "generate_monthly_statements", "",
         CurrentPeriod)

\* The penalty calculators, called on their own.  ret keeps the arguments next
\* to the result; calculate_penalty's result is in hundredths of a centavo.
Calculated(op, out, principal, rate_type, rate_value, months_overdue) ==
    [op |-> op, out |-> out, error |-> "", amount |-> principal,
     rate_type |-> rate_type, rate_value |-> rate_value,
     months_overdue |-> months_overdue]

CalculateSimpleInterestPenalty(principal, rate_percent, months_overdue) ==
    /\ ret' = Calculated("calculate_simple_interest_penalty",
                         calculate_simple_interest_penalty(principal, rate_percent,
                                                           months_overdue),
                         principal, "PERCENT", rate_percent, months_overdue)
    /\ UNCHANGED <<statements, unit_credit, credit_transactions, transactions,
                   transaction_adjustments, config, procs>>

CalculatePenalty(rate_type, rate_value, principal, months_overdue) ==
    /\ ret' = Calculated("calculate_penalty",
                         calculate_penalty(Policy(rate_type, rate_value, 15),
                                           principal, months_overdue),
                         principal, rate_type, rate_value, months_overdue)
    /\ UNCHANGED <<statements, unit_credit, credit_transactions, transactions,
                   transaction_adjustments, config, procs>>

\* The two penalty totals of a unit, called on their own: ret keeps the unit,
\* what the call raised ("ok" when it returned) and the total it returned, in
\* centavos.
Totalled(op, u, out, total) ==
    [op |-> op, out |-> out, error |-> "", amount |-> total, unit |-> u]

CalculatePendingPenalties(u) ==
    /\ LET r == calculate_pending_penalties(DB, u)
       IN  ret' = Totalled("calculate_pending_penalties", u,
                           IF r.exc = "" THEN "ok" ELSE r.exc,
                           SumSeq([i \in 1..Len(r.penalties) |->
                                       r.penalties[i].calculated_amount]))
    /\ UNCHANGED <<statements, unit_credit, credit_transactions, transactions,
                   transaction_adjustments, config, procs>>

CalculateCarriedPenalties(u) ==
    /\ LET r == calculate_carried_penalties(DB, u)
       IN  ret' = Totalled("calculate_carried_penalties", u,
                           IF r.exc = "" THEN "ok" ELSE r.exc,
                           Quantize(r.total, 100))
    /\ UNCHANGED <<statements, unit_credit, credit_transactions, transactions,
                   transaction_adjustments, config, procs>>

\* preview_transaction_breakdown, called on its own; like RecordIncome, ret
\* keeps the credit_to_add of the breakdown.  The model previews the
\* transactions still to be recorded.
PreviewTransactionBreakdown(u, amount, payment_type, ids, months) ==
    /\ Len(transactions) < MaxTxns
    /\ LET b == preview_transaction_breakdown(DB, u, amount, payment_type, None,
                                              ids, months)
       IN  ret' = Result("preview_transaction_breakdown",
                         IF b.exc = "" THEN "ok" ELSE b.exc, "", b.credit_to_add)
    /\ UNCHANGED <<statements, unit_credit, credit_transactions, transactions,
                   transaction_adjustments, config, procs>>

\* The operations of each component.
CreditAccountOps ==
    \/ \E u \in Units, a \in Amounts : AddCredit(u, a)
    \/ \E u \in Units, a \in Amounts : DeductCredit(u, a)

RecordingOps ==
    \/ \E u \in Units \cup {None}, a \in Amounts, pt \in PaymentType,
          ids \in SUBSET DiscountIds : RecordIncome(u, a, pt, ids)
    \/ \E a \in Amounts : RecordExpense(a)

WorkflowOps ==
    \/ \E t \in 1..MaxTxns : SubmitForApproval(t)
    \/ \E t \in 1..MaxTxns : ApproveTransaction(t)
    \/ \E t \in 1..MaxTxns, reason \in BOOLEAN : RejectTransaction(t, reason)
    \/ \E t \in 1..MaxTxns, reason \in BOOLEAN : CancelTransaction(t, reason)

BillingOps ==
    \/ \E u \in Units, k \in Periods : ApplyCreditToStatement(u, k)
    \/ \E u \in Units, k \in Periods : GenerateStatementForUnit(u, k)
    \/ GenerateMonthlyStatements

Next ==
    \/ CreditAccountOps
    \/ RecordingOps
    \/ WorkflowOps
    \/ BillingOps

\* The whole engine, one service call at a time.
Spec == Init /\ [][Next]_vars

\* The credit account alone: deposits and deductions of one caller.
InitCredit == InitBare /\ NoAccounts /\ NoCalls

SpecCredit == InitCredit /\ [][CreditAccountOps]_vars

\* Recording of income and expenses against the seeded statements.
SpecRecording == Init /\ [][RecordingOps]_vars

\* Billing: statement generation and settlement from credit, with deposits
\* to fund the credit account.
NextBilling ==
    \/ \E u \in Units, a \in Amounts : AddCredit(u, a)
    \/ BillingOps

SpecBilling == Init /\ [][NextBilling]_vars

\* Everything that touches a dues statement: billing and settlement from a
\* unit's first deposit, and payments from recording to approval.
NextDues ==
    \/ \E u \in Units, a \in Amounts :
          credit_transactions[u] = <<>> /\ AddCredit(u, a)
    \/ BillingOps
    \/ \E u \in Units, a \in Amounts, pt \in PaymentType : RecordIncome(u, a, pt, {})
    \/ \E t \in 1..MaxTxns : SubmitForApproval(t)
    \/ \E t \in 1..MaxTxns : ApproveTransaction(t)

SpecDues == Init /\ [][NextDues]_vars

\* Everything that writes the credit ledger: deposits and deductions,
\* settlement of statements from credit, and approval of the income
\* transactions a settlement records.
NextLedger ==
    \/ CreditAccountOps
    \/ BillingOps
    \/ \E t \in 1..MaxTxns : SubmitForApproval(t)
    \/ \E t \in 1..MaxTxns : ApproveTransaction(t)

SpecLedger == Init /\ [][NextLedger]_vars

\* The interest formulas on their own, over principals, rates and months.
\* calculate_penalty is only ever called with months_overdue >= 1.
NextInterest ==
    \/ \E p \in Principals, r \in RateValues, n \in Months :
          CalculateSimpleInterestPenalty(p, r, n)
    \/ \E type \in {"FLAT", "PERCENT"}, r \in RateValues, p \in Principals,
          n \in 1..MaxMonths : CalculatePenalty(type, r, p, n)

SpecInterest == InitCredit /\ [][NextInterest]_vars

\* The penalty totals of the seeded statements under the seeded policies.
NextPenalties ==
    \/ \E u \in Units : CalculatePendingPenalties(u)
    \/ \E u \in Units : CalculateCarriedPenalties(u)

SpecPenalties == Init /\ [][NextPenalties]_vars

\* The transaction lifecycle: recording, then submit / approve / reject /
\* cancel, against the seeded statements.
NextWorkflow ==
    \/ RecordingOps
    \/ WorkflowOps

SpecWorkflow == Init /\ [][NextWorkflow]_vars

\* The lifecycle calls on the seeded transactions, of which most are POSTED.
InitSeeded == InitConfig /\ NoAccounts /\ SeededCalls

SpecSeeded == InitSeeded /\ [][WorkflowOps]_vars
\* Recording with the amounts a request may carry, zero and negative included.
NextValidation ==
    \/ \E u \in Units \cup {None}, a \in PayloadAmounts, pt \in PaymentType,
          ids \in SUBSET DiscountIds : RecordIncome(u, a, pt, ids)
    \/ \E a \in PayloadAmounts : RecordExpense(a)

SpecValidation == Init /\ [][NextValidation]_vars
\* The breakdown previewed and the income then recorded.
NextPreview ==
    \/ \E u \in Units \cup {None}, a \in Amounts, pt \in PaymentType,
          ids \in SUBSET DiscountIds, months \in PeriodCounts :
              PreviewTransactionBreakdown(u, a, pt, ids, months)
    \/ RecordingOps

SpecPreview == Init /\ [][NextPreview]_vars
\* ------------------------------------------------------- concurrent callers
\* Two requests in flight.  Outside an atomic block every ORM statement
\* commits on its own, so a call is a sequence of steps, one per statement.

\* add_credit / deduct_credit: get_or_create_unit_credit loads the row; the
\* balance test and the += / -= act on the loaded object.
CreditBegin(p, op, u, amount) ==
    /\ pc[p] = "idle"
    /\ LedgerEntries < MaxEntries
    /\ Commit(get_or_create_unit_credit(DB, u))
    /\ IF op = "deduct_credit" /\ get_credit_balance(DB, u) < amount
       THEN /\ pc' = [pc EXCEPT ![p] = "done"]
            /\ local' = [local EXCEPT ![p] =
                   [Idle EXCEPT !.op = op, !.unit = u, !.amount = amount,
                                !.out = "None"]]
       ELSE /\ pc' = [pc EXCEPT ![p] = "save"]
            /\ local' = [local EXCEPT ![p] =
                   [Idle EXCEPT !.op = op, !.unit = u, !.amount = amount,
                                !.balance = IF op = "add_credit"
                                            THEN get_credit_balance(DB, u) + amount
                                            ELSE get_credit_balance(DB, u) - amount]]
    /\ UNCHANGED <<config, ret>>

\* credit_account.save(): the loaded object's balance overwrites the row.
CreditSave(p) ==
    /\ pc[p] = "save"
    /\ unit_credit' = [unit_credit EXCEPT
                          ![local[p].unit].credit_balance = local[p].balance]
    /\ pc' = [pc EXCEPT ![p] = "log"]
    /\ UNCHANGED <<statements, credit_transactions, transactions,
                   transaction_adjustments, config, ret, local>>

\* CreditTransaction.objects.create(..., balance_after=credit_account.credit_balance)
CreditLog(p) ==
    /\ pc[p] = "log"
    /\ credit_transactions' = [credit_transactions EXCEPT ![local[p].unit] =
           Append(@, IF local[p].op = "add_credit"
                     THEN CreditRow("DEPOSIT", local[p].amount, local[p].balance, None)
                     ELSE CreditRow("DUES_DEDUCTION", -local[p].amount,
                                    local[p].balance, None))]
    /\ pc' = [pc EXCEPT ![p] = "done"]
    /\ local' = [local EXCEPT ![p].out = "ok"]
    /\ UNCHANGED <<statements, unit_credit, transactions,
                   transaction_adjustments, config, ret>>

NextCreditConc ==
    \/ \E p \in Procs, op \in {"add_credit", "deduct_credit"}, u \in Units,
          a \in Amounts : CreditBegin(p, op, u, a)
    \/ \E p \in Procs : CreditSave(p)
    \/ \E p \in Procs : CreditLog(p)

InitCreditConc == InitBare /\ FundedAccounts /\ NoCalls

SpecCreditConc == InitCreditConc /\ [][NextCreditConc]_vars

\* generate_statement_for_unit: the lookup of an existing statement ...
GenerateBegin(p, u, k) ==
    /\ pc[p] = "idle"
    /\ billing_config.exists /\ billing_config.is_active
    /\ pc' = [pc EXCEPT ![p] = IF statements[u, k].exists THEN "done" ELSE "create"]
    /\ local' = [local EXCEPT ![p] =
           [Idle EXCEPT !.op = "generate_statement_for_unit", !.unit = u,
                        !.period = k,
                        !.out = IF statements[u, k].exists THEN "existing" ELSE ""]]
    /\ UNCHANGED <<statements, unit_credit, credit_transactions, transactions,
                   transaction_adjustments, config, ret>>

\* ... and the rest of it, for the caller that found none.
GenerateCreate(p) ==
    /\ pc[p] = "create"
    /\ LET r == create_statement_for_unit(DB, local[p].unit, local[p].period)
       IN  /\ Commit(r.db)
           /\ local' = [local EXCEPT ![p].out = r.out]
    /\ pc' = [pc EXCEPT ![p] = "done"]
    /\ UNCHANGED <<config, ret>>

\* The same work item delivered twice.
NextGenConc ==
    \/ \E p \in Procs, u \in Units : GenerateBegin(p, u, CurrentPeriod)
    \/ \E p \in Procs : GenerateCreate(p)

InitGenConc == InitConfig /\ FundedAccounts /\ NoCalls

SpecGenConc == InitGenConc /\ [][NextGenConc]_vars

\* approve_transaction: Transaction.objects.get and the test of the loaded
\* status ...
ApproveBegin(p, t) ==
    /\ pc[p] = "idle"
    /\ LET refused == ~Found(DB, t) \/ transactions[t].status # "PENDING"
       IN  /\ pc' = [pc EXCEPT ![p] = IF refused THEN "done" ELSE "write"]
           /\ local' = [local EXCEPT ![p] =
                  [Idle EXCEPT !.op = "approve_transaction", !.amount = t,
                               !.out = IF refused THEN "ValueError" ELSE ""]]
    /\ UNCHANGED <<statements, unit_credit, credit_transactions, transactions,
                   transaction_adjustments, config, ret>>

\* ... and the status write with all that follows it, for the caller that
\* loaded a PENDING transaction.
ApproveWrite(p) ==
    /\ pc[p] = "write"
    /\ LET r == approve_pending(DB, local[p].amount)
       IN  /\ Commit(r.db)
           /\ local' = [local EXCEPT ![p].out = r.out]
    /\ pc' = [pc EXCEPT ![p] = "done"]
    /\ UNCHANGED <<config, ret>>

\* Payments recorded for a unit and submitted, then approved by two requests.
NextApproveConc ==
    \/ \E u \in Units, a \in Amounts, pt \in PaymentType,
          ids \in SUBSET DiscountIds : RecordIncome(u, a, pt, ids)
    \/ \E t \in 1..MaxTxns : SubmitForApproval(t)
    \/ \E p \in Procs, t \in 1..MaxTxns : ApproveBegin(p, t)
    \/ \E p \in Procs : ApproveWrite(p)

SpecApproveConc == Init /\ [][NextApproveConc]_vars
\* ------------------------------------------------------------- properties
\* Sum of the signed amounts of the first n entries of a unit's credit ledger.
RunningSum(u, n) ==
    SumSeq([i \in 1..n |-> credit_transactions[u][i].amount])

\* C1: after any sequence of deposits and deductions with positive amounts the
\* stored credit_balance equals the sum of the signed amounts of the unit's
\* ledger entries, every entry's balance_after is the running sum up to and
\* including it, and no running sum is negative.
C1_BalanceIsLedgerSum ==
    \A u \in Units :
        /\ get_credit_balance(DB, u) = RunningSum(u, Len(credit_transactions[u]))
        /\ \A i \in 1..Len(credit_transactions[u]) :
              /\ credit_transactions[u][i].balance_after = RunningSum(u, i)
              /\ RunningSum(u, i) >= 0

\* A deposit, a deduction that succeeded and a later deduction that was refused.
C1_Witness ==
    \E u \in Units :
        /\ Len(credit_transactions[u]) = 2
        /\ credit_transactions[u][1].transaction_type = "DEPOSIT"
        /\ credit_transactions[u][2].transaction_type = "DUES_DEDUCTION"
        /\ unit_credit[u].credit_balance > 0
        /\ ret.op = "deduct_credit" /\ ret.out = "None"

\* C2: for any interleaving of two concurrent credit operations on one unit,
\* once both have finished the stored credit_balance is non-negative and equals
\* the sum of the ledger entry amounts, and the deductions that succeeded never
\* took more than the account held (the entry sum is not negative).
C2_ConcurrentCreditSerialized ==
    (\A p \in Procs : pc[p] = "done") =>
        \A u \in Units :
            /\ get_credit_balance(DB, u) >= 0
            /\ get_credit_balance(DB, u) = RunningSum(u, Len(credit_transactions[u]))
            /\ RunningSum(u, Len(credit_transactions[u])) >= 0

\* C3: generate_statement_for_unit for a key that already has a statement
\* returns that statement and is a pure no-op: the key still has its one
\* statement, no statement field changes, no credit is deducted, no credit
\* ledger entry is appended and no income transaction is recorded.
C3_GenerationIdempotent ==
    [][\A u \in Units, k \in Periods :
          (statements[u, k].exists /\ GenerateStatementForUnit(u, k)) =>
              /\ ret'.out = "existing"
              /\ statements'[u, k].exists
              /\ UNCHANGED <<statements, unit_credit, credit_transactions,
                             transactions, transaction_adjustments>>]_vars

\* Generation was called again for a statement with a balance due, for a unit
\* holding credit.
C3_Witness ==
    /\ ret.op = "generate_statement_for_unit"
    /\ ret.out = "existing"
    /\ \E u \in Units :
          /\ statements[u, ret.amount].exists
          /\ balance_due(statements[u, ret.amount]) > 0
          /\ get_credit_balance(DB, u) > 0

\* C4: when two generation runs for the same key execute concurrently, every
\* interleaving ends with exactly one statement for that key and with the
\* unit's credit deducted for it at most once.
C4_ConcurrentGenerationOneStatement ==
    \A u \in Units :
        (\A p \in Procs : pc[p] = "done" /\ local[p].unit = u) =>
            /\ statements[u, CurrentPeriod].exists
            /\ Len(SelectSeq(credit_transactions[u],
                             LAMBDA e : e.transaction_type = "DUES_DEDUCTION")) <= 1

\* The adjustment rows persisted for transaction t.
AdjustmentsOf(t) ==
    SelectSeq(transaction_adjustments, LAMBDA a : a.transaction_id = t)

\* C5: every persisted transaction has net_amount = gross_amount + (sum of its
\* PENALTY adjustment rows) - (sum of its DISCOUNT adjustment rows), and its
\* net_amount is never negative.
C5_NetAmountNonNegative ==
    \A t \in 1..Len(transactions) :
        /\ transactions[t].net_amount =
               transactions[t].gross_amount
               + SelectAmounts(AdjustmentsOf(t), "PENALTY")
               - SelectAmounts(AdjustmentsOf(t), "DISCOUNT")
        /\ transactions[t].net_amount >= 0

C8_SettlementConservesMoney ==
    [][\A u \in Units, k \in Periods :
          ApplyCreditToStatement(u, k) =>
              LET deducted == get_credit_balance(DB, u) - unit_credit'[u].credit_balance
                  settled == statements'[u, k].amount_paid - statements[u, k].amount_paid
                  recorded == IF Len(transactions') > Len(transactions)
                              THEN transactions'[Len(transactions')].net_amount
                              ELSE 0
              IN  deducted = settled /\ settled = recorded]_vars

\* C9: generating a new statement with net amount N > 0 for a unit whose credit
\* balance is C > 0 completes successfully, leaves the credit balance at
\* C - min(C, N), the statement's amount_paid at min(C, N) and its status PAID
\* if C >= N and PARTIAL otherwise.
C9_NewStatementSettledFromCredit ==
    [][\A u \in Units, k \in Periods :
          (/\ ~statements[u, k].exists
           /\ get_credit_balance(DB, u) > 0
           /\ GenerateStatementForUnit(u, k)) =>
              /\ ret'.out = "created"
              /\ statements'[u, k].exists
              /\ statements'[u, k].net_amount > 0 =>
                    LET N == statements'[u, k].net_amount
                        C == get_credit_balance(DB, u)
                    IN  /\ unit_credit'[u].credit_balance = C - Min(C, N)
                        /\ statements'[u, k].amount_paid = Min(C, N)
                        /\ statements'[u, k].status =
                               IF C >= N THEN "PAID" ELSE "PARTIAL"]_vars

\* C10: for a unit whose oldest unpaid statement has a balance D > 0,
\* validate_payment_amount rejects every amount < D in EXACT and in ADVANCE
\* mode, and record_income for such an amount raises without persisting a
\* transaction or an adjustment row.
C10_UnderpaymentRejected ==
    [][\A u \in Units, a \in Amounts, pt \in PaymentType, ids \in SUBSET DiscountIds :
          (/\ get_current_dues_for_unit(DB, u) # None
           /\ a < balance_due(statements[u, get_current_dues_for_unit(DB, u)])
           /\ RecordIncome(u, a, pt, ids)) =>
              /\ ~validate_payment_amount(DB, u, a, pt).valid
              /\ ret'.out = "ValueError"
              /\ UNCHANGED <<transactions, transaction_adjustments>>]_vars

\* An underpayment has just been refused: nothing was recorded.
C10_Witness ==
    /\ ret.op = "record_income"
    /\ ret.out = "ValueError"
    /\ ret.error = "partial payments are not allowed"
    /\ \E u \in Units : get_current_dues_for_unit(DB, u) # None
    /\ transactions = <<>>
    /\ transaction_adjustments = <<>>

\* C11: for a unit whose oldest outstanding statement has a balance D, an EXACT
\* payment passes validate_payment_amount if and only if amount = D; any other
\* amount (amount > D included) makes record_income raise ValueError and persist
\* nothing, and an accepted EXACT payment carries no credit-to-add, neither from
\* the validator nor from record_income.
C11_ExactPaymentMatchesBalance ==
    [][\A u \in Units, a \in Amounts, ids \in SUBSET DiscountIds :
          (/\ get_current_dues_for_unit(DB, u) # None
           /\ RecordIncome(u, a, "EXACT", ids)) =>
              LET D == balance_due(statements[u, get_current_dues_for_unit(DB, u)])
                  v == validate_payment_amount(DB, u, a, "EXACT")
              IN  /\ v.valid <=> (a = D)
                  /\ v.credit_to_add = NoneAmt
                  /\ a # D => /\ ret'.out = "ValueError"
                              /\ UNCHANGED <<transactions, transaction_adjustments>>
                  /\ ret'.amount = NoneAmt]_vars

\* An EXACT payment above the balance has just been refused.
C11_Witness ==
    /\ ret.op = "record_income"
    /\ ret.out = "ValueError"
    /\ ret.error = "exact payment mismatch"
    /\ transactions = <<>>

\* C12: for a unit whose oldest outstanding statement has a balance D, an
\* ADVANCE payment of amount >= D passes validate_payment_amount with
\* credit-to-add amount - D when amount > D and none when amount = D, and the
\* credit_to_add record_income returns for the same inputs is that same value.
C12_AdvanceCreditToAdd ==
    [][\A u \in Units, a \in Amounts, ids \in SUBSET DiscountIds :
          (/\ get_current_dues_for_unit(DB, u) # None
           /\ a >= balance_due(statements[u, get_current_dues_for_unit(DB, u)])
           /\ RecordIncome(u, a, "ADVANCE", ids)) =>
              LET D == balance_due(statements[u, get_current_dues_for_unit(DB, u)])
                  v == validate_payment_amount(DB, u, a, "ADVANCE")
              IN  /\ v.valid
                  /\ v.credit_to_add = (IF a > D THEN a - D ELSE NoneAmt)
                  /\ ret'.out = "ok" => ret'.amount = v.credit_to_add]_vars

\* No statement of the unit is UNPAID, OVERDUE or PARTIAL.
NothingOutstanding(u) ==
    \A k \in Periods :
        ~ (/\ statements[u, k].exists
           /\ statements[u, k].status \in {"UNPAID", "OVERDUE", "PARTIAL"})

\* C13: for a unit with no statement in UNPAID, OVERDUE or PARTIAL, an EXACT
\* payment is rejected for every amount (record_income raises ValueError and
\* persists nothing) and an ADVANCE payment passes validation with
\* credit-to-add equal to the entire amount.
C13_NoOutstandingStatement ==
    [][\A u \in Units, a \in Amounts, pt \in PaymentType, ids \in SUBSET DiscountIds :
          (NothingOutstanding(u) /\ RecordIncome(u, a, pt, ids)) =>
              LET v == validate_payment_amount(DB, u, a, pt)
              IN  IF pt = "EXACT"
                  THEN /\ ~v.valid
                       /\ ret'.out = "ValueError"
                       /\ UNCHANGED <<transactions, transaction_adjustments>>
                  ELSE /\ v.valid
                       /\ v.credit_to_add = a
                       /\ ret'.out # "ValueError"]_vars

\* An EXACT payment for a unit that owes nothing has just been refused.
C13_Witness ==
    /\ ret.op = "record_income"
    /\ ret.out = "ValueError"
    /\ ret.error = "no outstanding dues"
    /\ \E u \in Units : NothingOutstanding(u)
    /\ transactions = <<>>

\* C14: approving a PENDING ADVANCE income transaction recorded for amount A
\* against an outstanding balance D, A > D, deposits exactly A - D into the
\* unit's credit account (one DEPOSIT ledger entry linked to the transaction)
\* and sets the matching statement to PAID with amount_paid = net_amount,
\* whatever penalties or discounts the transaction carries.
C14_ApprovalDepositsExcess ==
    [][\A t \in 1..MaxTxns :
          (/\ Found(DB, t)
           /\ transactions[t].status = "PENDING"
           /\ transactions[t].transaction_type = "INCOME"
           /\ transactions[t].payment_type = "ADVANCE"
           /\ transactions[t].unit_id # None
           /\ get_current_dues_for_unit(DB, transactions[t].unit_id) # None
           /\ transactions[t].gross_amount >
                  balance_due(statements[transactions[t].unit_id,
                      get_current_dues_for_unit(DB, transactions[t].unit_id)])
           /\ ApproveTransaction(t)) =>
              LET u == transactions[t].unit_id
                  k == get_current_dues_for_unit(DB, u)
                  excess == transactions[t].gross_amount - balance_due(statements[u, k])
              IN  /\ unit_credit'[u].exists
                  /\ unit_credit'[u].credit_balance = get_credit_balance(DB, u) + excess
                  /\ credit_transactions'[u] =
                         Append(credit_transactions[u],
                                CreditRow("DEPOSIT", excess,
                                          get_credit_balance(DB, u) + excess, t))
                  /\ statements'[u, k].status = "PAID"
                  /\ statements'[u, k].amount_paid = statements'[u, k].net_amount]_vars

\* C15: approving a PENDING ADVANCE income transaction recorded for a unit with
\* no outstanding statement deposits the entire transaction amount into the
\* unit's credit account: the balance after approval is the balance before
\* plus that amount.
C15_ApprovalDepositsWholeAmount ==
    [][\A t \in 1..MaxTxns :
          (/\ Found(DB, t)
           /\ transactions[t].status = "PENDING"
           /\ transactions[t].transaction_type = "INCOME"
           /\ transactions[t].payment_type = "ADVANCE"
           /\ transactions[t].unit_id # None
           /\ NothingOutstanding(transactions[t].unit_id)
           /\ ApproveTransaction(t)) =>
              LET u == transactions[t].unit_id
              IN  /\ unit_credit'[u].exists
                  /\ unit_credit'[u].credit_balance =
                         get_credit_balance(DB, u) + transactions[t].gross_amount]_vars

\* C20: approve moves a PENDING transaction to POSTED; a transaction's status
\* is always one of DRAFT, PENDING, POSTED, CANCELLED, a new transaction is a
\* DRAFT, and the only status changes are DRAFT -> PENDING (submit),
\* PENDING -> POSTED (approve), PENDING -> DRAFT (reject) and -> CANCELLED
\* (cancel).
C20_StatusLifecycle ==
    [][/\ \A t \in 1..Len(transactions') :
             /\ transactions'[t].status \in {"DRAFT", "PENDING", "POSTED", "CANCELLED"}
             /\ t > Len(transactions) => transactions'[t].status = "DRAFT"
       /\ \A t \in 1..Len(transactions) :
             \/ transactions'[t].status = transactions[t].status
             \/ /\ transactions[t].status = "DRAFT"
                /\ transactions'[t].status = "PENDING"
                /\ ret'.op = "submit_for_approval"
             \/ /\ transactions[t].status = "PENDING"
                /\ transactions'[t].status = "POSTED"
                /\ ret'.op = "approve_transaction"
             \/ /\ transactions[t].status = "PENDING"
                /\ transactions'[t].status = "DRAFT"
                /\ ret'.op = "reject_transaction"
             \/ /\ transactions'[t].status = "CANCELLED"
                /\ ret'.op = "cancel_transaction"
       /\ \A t \in 1..MaxTxns :
             (Found(DB, t) /\ transactions[t].status = "PENDING"
                           /\ ApproveTransaction(t)) =>
                 /\ ret'.out = "ok"
                 /\ transactions'[t].status = "POSTED"]_vars

\* C16: deduct_credit with an amount greater than the unit's balance returns
\* None without raising, leaves the stored balance unchanged and appends no
\* ledger entry; with amount <= balance it always succeeds, taking the amount
\* from the balance and appending one entry.
C16_InsufficientCreditNotApplied ==
    [][\A u \in Units, a \in Amounts :
          DeductCredit(u, a) =>
              IF a > get_credit_balance(DB, u)
              THEN /\ ret'.out = "None"
                   /\ unit_credit'[u].credit_balance = get_credit_balance(DB, u)
                   /\ credit_transactions' = credit_transactions
              ELSE /\ ret'.out = "ok"
                   /\ unit_credit'[u].credit_balance = get_credit_balance(DB, u) - a
                   /\ Len(credit_transactions'[u]) = Len(credit_transactions[u]) + 1]_vars

\* A deduction larger than a funded account's balance has just been refused.
C16_Witness ==
    /\ ret.op = "deduct_credit"
    /\ ret.out = "None"
    /\ \E u \in Units :
          /\ unit_credit[u].exists
          /\ unit_credit[u].credit_balance > 0
          /\ ret.amount > unit_credit[u].credit_balance
          /\ credit_transactions[u] # <<>>

\* C17: the credit ledger is append-only.  Every step leaves each unit's
\* entries as a prefix of its entries afterwards and appends at most one; a
\* deposit appends exactly one entry, with a positive amount, a deduction that
\* succeeds exactly one, with a negative amount, and an entry is appended
\* exactly when the balance changes, with the sign of the change.
C17_LedgerAppendOnly ==
    [][\A u \in Units :
          LET old == credit_transactions[u]
              new == credit_transactions'[u]
              delta == unit_credit'[u].credit_balance - unit_credit[u].credit_balance
          IN  /\ Len(new) \in {Len(old), Len(old) + 1}
              /\ SubSeq(new, 1, Len(old)) = old
              /\ Len(new) = Len(old) <=> delta = 0
              /\ Len(new) > Len(old) =>
                    /\ new[Len(new)].amount = delta
                    /\ new[Len(new)].transaction_type =
                           (IF delta > 0 THEN "DEPOSIT" ELSE "DUES_DEDUCTION")
              /\ \A a \in Amounts :
                    /\ AddCredit(u, a) =>
                          Len(new) = Len(old) + 1 /\ new[Len(new)].amount = a
                    /\ (DeductCredit(u, a) /\ ret'.out = "ok") =>
                          Len(new) = Len(old) + 1 /\ new[Len(new)].amount = -a]_vars

\* A deposit, then a settlement from credit, then another deposit: three
\* entries, the first two as they were written.
C17_Witness ==
    \E u \in Units :
        /\ Len(credit_transactions[u]) = 3
        /\ credit_transactions[u][1].transaction_type = "DEPOSIT"
        /\ credit_transactions[u][2].transaction_type = "DUES_DEDUCTION"
        /\ credit_transactions[u][3].transaction_type = "DEPOSIT"
        /\ transactions # <<>>

C19_PenaltyPerStatementAfterGrace ==
    (/\ ret.op \in {"calculate_pending_penalties", "calculate_carried_penalties"}
     /\ Len(ActivePolicies) = 1) =>
        LET policy == ActivePolicies[1]
            Accrued(s) ==
                LET after_grace == s.days_past_due - policy.grace_period_days
                    periods == Max(1, after_grace \div 30)
                IN  IF /\ s.exists
                       /\ s.status \in {"UNPAID", "OVERDUE"}
                       /\ after_grace > 0
                    THEN IF policy.rate_type = "PERCENT"
                         THEN calculate_simple_interest_penalty(
                                  balance_due(s), policy.rate_value, periods)
                         ELSE policy.rate_value * periods
                    ELSE 0
        IN  /\ ret.out = "ok"
            /\ ret.amount =
                   SumSeq([k \in Periods |-> Accrued(statements[ret.unit, k])])

\* C21: a lifecycle call made from the wrong source status is rejected with an
\* explicit error and changes nothing: submit on a transaction that is not
\* DRAFT, and approve or reject on a transaction that is not PENDING, raise
\* ValueError and leave every transaction (status and description), every
\* adjustment row, every statement and every credit account as they were.
C21_WrongStatusRejected ==
    [][\A t \in 1..MaxTxns :
          (/\ Found(DB, t)
           /\ \/ /\ transactions[t].status # "DRAFT"
                 /\ SubmitForApproval(t)
              \/ /\ transactions[t].status # "PENDING"
                 /\ \/ ApproveTransaction(t)
                    \/ \E reason \in BOOLEAN : RejectTransaction(t, reason)) =>
              /\ ret'.out = "ValueError"
              /\ UNCHANGED <<transactions, transaction_adjustments, statements,
                             unit_credit, credit_transactions>>]_vars

\* A call from the wrong source status has just been refused: a reject of a
\* transaction that is still a DRAFT, or a submit of one already PENDING.
C21_Witness ==
    /\ ret.out = "ValueError"
    /\ Len(transactions) = 1
    /\ \/ ret.op = "reject_transaction" /\ transactions[1].status = "DRAFT"
       \/ ret.op = "submit_for_approval" /\ transactions[1].status = "PENDING"
       \/ ret.op = "approve_transaction" /\ transactions[1].status = "CANCELLED"

\* C22: cancel applies only to non-terminal statuses: a cancel of a POSTED
\* transaction is rejected with an error, and a POSTED transaction never
\* changes status again, whatever lifecycle call is made on it.
C22_PostedIsTerminal ==
    [][\A t \in 1..Len(transactions) :
          transactions[t].status = "POSTED" =>
              /\ transactions'[t].status = "POSTED"
              /\ (\E reason \in BOOLEAN : CancelTransaction(t, reason)) =>
                     ret'.out = "ValueError"]_vars

\* C23: cancellation is permanent and non-destructive: once a transaction is
\* CANCELLED, every later submit, approve, reject or cancel call on it fails
\* with an error and its status stays CANCELLED, and a cancel call never
\* deletes the transaction record or its adjustment rows.
C23_CancelledIsPermanent ==
    [][\A t \in 1..Len(transactions) :
          /\ transactions[t].status = "CANCELLED" =>
                 /\ transactions'[t].status = "CANCELLED"
                 /\ (\/ SubmitForApproval(t)
                     \/ ApproveTransaction(t)
                     \/ \E reason \in BOOLEAN : RejectTransaction(t, reason)
                     \/ \E reason \in BOOLEAN : CancelTransaction(t, reason)) =>
                        ret'.out = "ValueError"
          /\ (\E reason \in BOOLEAN : CancelTransaction(t, reason)) =>
                 /\ Len(transactions') = Len(transactions)
                 /\ transactions'[t].gross_amount = transactions[t].gross_amount
                 /\ transactions'[t].net_amount = transactions[t].net_amount
                 /\ transaction_adjustments' = transaction_adjustments]_vars

\* A cancelled transaction that carries an adjustment row has just been
\* cancelled a second time, and the call was refused.
C23_Witness ==
    /\ ret.op = "cancel_transaction"
    /\ ret.out = "ValueError"
    /\ Len(transactions) = 1
    /\ transactions[1].status = "CANCELLED"
    /\ AdjustmentsOf(1) # <<>>

\* C24: recording an income or an expense with amount <= 0 is refused and
\* persists nothing: no reachable state contains a transaction whose gross
\* amount is zero or negative.
C24_AmountsArePositive ==
    \A t \in 1..Len(transactions) : transactions[t].gross_amount > 0

\* C25: missing configuration never fails a billing run.  Generating a new
\* statement with no active penalty policy completes and carries a penalty of
\* 0; with no applicable discount policy the discount is 0; with neither, the
\* statement's net_amount is its base_amount.  With no active billing
\* configuration generate_monthly_statements creates no statement and returns
\* normally.
C25_MissingConfigurationDegrades ==
    [][/\ \A u \in Units, k \in Periods :
             (~statements[u, k].exists /\ GenerateStatementForUnit(u, k)) =>
                 /\ Len(ActivePolicies) = 0 =>
                        /\ ret'.out = "created"
                        /\ statements'[u, k].exists
                        /\ statements'[u, k].penalty_amount = 0
                 /\ calculate_applicable_discounts(
                        None, billing_config.monthly_dues_amount, 1) = <<>> =>
                        /\ Len(ActivePolicies) <= 1 => ret'.out = "created"
                        /\ statements'[u, k].exists => statements'[u, k].discount_amount = 0
                 /\ (/\ Len(ActivePolicies) = 0
                     /\ calculate_applicable_discounts(
                            None, billing_config.monthly_dues_amount, 1) = <<>>) =>
                        statements'[u, k].net_amount = statements'[u, k].base_amount
       /\ (~(billing_config.exists /\ billing_config.is_active)
           /\ GenerateMonthlyStatements) =>
              /\ ret'.out = "no billing config"
              /\ statements' = statements]_vars

\* C26: previewBreakdown runs the same computation as recordIncome without
\* persisting: for the same state and the same inputs (unit, amount, payment
\* mode, selected discount ids, period count) the gross amount, adjustments,
\* net amount and credit_to_add that preview_transaction_breakdown returns are
\* those record_income persists and returns, and the preview leaves every
\* transaction, adjustment, statement and credit account unchanged.
C26_PreviewMatchesRecord ==
    [][\A u \in Units \cup {None}, a \in Amounts, pt \in PaymentType,
          ids \in SUBSET DiscountIds, months \in PeriodCounts :
          /\ (RecordIncome(u, a, pt, ids) /\ ret'.out = "ok") =>
                 LET b == preview_transaction_breakdown(DB, u, a, pt, None, ids,
                                                        months)
                     tid == Len(transactions')
                 IN  /\ b.exc = ""
                     /\ transactions'[tid].gross_amount = b.gross_amount
                     /\ transactions'[tid].net_amount = b.net_amount
                     /\ transaction_adjustments' = transaction_adjustments
                            \o AdjustmentRows(b.adjustments, tid)
                     /\ ret'.amount = b.credit_to_add
          /\ PreviewTransactionBreakdown(u, a, pt, ids, months) =>
                 UNCHANGED <<transactions, transaction_adjustments, statements,
                             unit_credit, credit_transactions>>]_vars

C28_NoOvercollection ==
    [][/\ \A t \in 1..MaxTxns :
             (/\ Found(DB, t)
              /\ transactions[t].status = "PENDING"
              /\ transactions[t].transaction_type = "INCOME"
              /\ transactions[t].payment_type = "EXACT"
              /\ transactions[t].unit_id # None
              /\ get_current_dues_for_unit(DB, transactions[t].unit_id) # None
              /\ transactions[t].gross_amount =
                     balance_due(statements[transactions[t].unit_id,
                         get_current_dues_for_unit(DB, transactions[t].unit_id)])
              /\ ApproveTransaction(t)) =>
                 LET u == transactions[t].unit_id
                     k == get_current_dues_for_unit(DB, u)
                 IN  /\ transactions'[t].status = "POSTED"
                     /\ statements'[u, k].status = "PAID"
                     /\ ~validate_payment_amount(DB', u, transactions[t].gross_amount,
                                                 "EXACT").valid
       /\ \A u \in Units :
             SumSeq([t \in 1..Len(transactions) |->
                        IF /\ transactions[t].unit_id = u
                           /\ transactions[t].status = "POSTED"
                           /\ transactions[t].transaction_type = "INCOME"
                           /\ transactions[t].payment_type = "EXACT"
                        THEN transactions[t].gross_amount ELSE 0])
                 <= SumSeq([k \in Periods |-> statements[u, k].net_amount])]_vars

C30_CarriedEqualsPending ==
    [][\A u \in Units, k \in Periods :
          (/\ ~statements[u, k].exists
           /\ Len(ActivePolicies) <= 1
           /\ GenerateStatementForUnit(u, k)) =>
              LET pending == calculate_pending_penalties(DB, u).penalties
              IN  /\ statements'[u, k].exists
                  /\ statements'[u, k].penalty_amount =
                         SumSeq([i \in 1..Len(pending) |->
                                    pending[i].calculated_amount])]_vars

=============================================================================
